---- MODULE Spec2Model ----
(***************************************************************************)
(* Realtime session controller of src/pages/ConsolePage.tsx.               *)
(*                                                                         *)
(* The page is one React component.  Its handlers are async functions that *)
(* run on a single thread: a handler runs without interruption up to its   *)
(* next `await`, where it is suspended and any other handler may run.  An  *)
(* action of this module is therefore one run-to-suspension segment of a   *)
(* handler: the invocation (up to the first await) or the continuation     *)
(* after an await resolves (up to the next await or the return).           *)
(*                                                                         *)
(* An awaited call of a collaborator (WavRecorder, WavStreamPlayer,        *)
(* RealtimeClient.connect) takes effect when the await resolves.           *)
(*                                                                         *)
(* Four specifications share the variables:                                *)
(*   Spec       session controller, turn taking, interruption (4.1-4.3)    *)
(*   SpecItems  conversation reconciler (4.4)                              *)
(*   SpecLog    event log aggregator (4.5)                                 *)
(*   SpecPage   session in manual mode with the page around it: the        *)
(*              configuration, the editor, the memory map, the feedback    *)
(***************************************************************************)
EXTENDS Integers, Sequences, FiniteSets, TLC

\* ------------------------------------------------------------------ bounds
MaxOffset == 1      \* samples a track can have played before it ends
MaxLog == 4         \* realtime events recorded in one run
MaxAudio == 2       \* bytes of audio an item accumulates
MaxNotify == 4      \* conversation.updated notifications per item

MaxOps == 3         \* handler invocations in one run
MaxInFlight == 2    \* handler invocations suspended at the same time

\* ------------------------------------------------------------- value sets
ItemIds == {"a1", "a2"}
NoTrack == [trackId |-> "", offset |-> 0]
\* The value of a handler's trackSampleOffset before interrupt() has answered.
NotYet == [trackId |-> "", offset |-> -1]
Tracks == [trackId : ItemIds, offset : 0..MaxOffset]

ConnectTasks == {"c1", "c2"}
InterruptTasks == {"sr", "ih"}
UpdateTasks == {"u1", "u2"}
Tasks == ConnectTasks \cup {"dc", "sr", "st", "mo", "ih"} \cup UpdateTasks

\* A handler slot is "idle" before its first invocation and after an
\* invocation returned, "threw" after an invocation ended with an exception;
\* in both it can be invoked again.
Finished == {"idle", "threw"}

VARIABLES
    \* React state (useState, lines 95-117)
    isConnected, canPushToTalk, isRecording, items, realtimeEvents,
    \* Toggle component state
    toggleValue,
    \* WavRecorder
    recStatus, recOwner,
    \* WavStreamPlayer
    playerConnected, track,
    \* RealtimeClient
    clientConnected, turnDetection, convItems, itemObj,
    \* handler invocations: position and locals
    pc, tso, hItem, hSnap,
    \* observations of the calls made on the collaborators
    cancelCalls, framesFwd, seedSent, deleteLog,
    createCalls, decodes, notified, fed, ops,
    \* observations of the event stream recorded so far
    seen, lastKey, runLen, runs,
    \* React state of the configuration panel, the editor and the memory
    \* block (useState, lines 103-111)
    memoryKv, code, company, persona, customQuestion,
    \* conversation.updated listeners registered by requestFeedback
    feedbackListeners,
    \* connectConversation: the configuration on screen at the invocation
    \* and the seed text the invocation sent
    cfgAt, seedText,
    \* observations of the last push-to-talk turn and changeTurnEndType
    turnLog, modeLog

\* Handler invocations suspended at an await.
InFlight == {t \in Tasks : pc[t] \notin Finished}
CanInvoke == Cardinality(InFlight) < MaxInFlight /\ ops < MaxOps

sessVars == <<isConnected, canPushToTalk, isRecording, toggleValue, recStatus,
              recOwner, playerConnected, track, clientConnected, turnDetection,
              pc, tso, cancelCalls, framesFwd, seedSent, deleteLog, createCalls, ops>>
itemVars == <<items, convItems, itemObj, hItem, hSnap, decodes, notified,
              fed>>
logVars == <<realtimeEvents, seen, lastKey, runLen, runs>>
pageVars == <<memoryKv, code, company, persona, customQuestion,
              feedbackListeners, cfgAt, seedText>>
turnVars == <<turnLog, modeLog>>
vars == <<sessVars, itemVars, logVars, pageVars, turnVars>>

Sources == {"client", "server"}
TypeNames == {"input_audio_buffer.append", "response.audio.delta",
              "session.update"}
NoKey == [source |-> "", type |-> ""]

\* Values of the configuration panel (lines 601-638), of the editor and of
\* the set_memory tool.
Companies == {"", " ", "Acme"}
Personas == {"Friendly", "Strict"}
Questions == {"", "two-sum"}
Codes == {"", "x = 1"}
MemKeys == {"name"}
MemValues == {"Ann"}

\* useState('') / useState('Friendly') / useState('')  (lines 107-111)
InitialConfig == [company |-> "", persona |-> "Friendly",
                  customQuestion |-> ""]

\* Handlers that can call client.createResponse().
CreateCallers == {"st", "mo"}

\* turnLog before any push-to-talk turn: open tells whether the recorder
\* had begun when startRecording was invoked, after what that startRecording
\* had done when stopRecording was invoked, from the status of the recorder
\* when stopRecording's pause() took effect.
NoTurn == [open |-> FALSE, after |-> "nostart", from |-> "none"]
\* modeLog before any changeTurnEndType: whether the recorder was recording
\* at the invocation, and the pause() calls the invocation has completed.
NoMode == [wasRecording |-> FALSE, pauses |-> 0]

\* ---------------------------------------------------------------- Init
NoDelete == [id |-> "", wasConnected |-> FALSE, forwarded |-> FALSE]
NewItem == [role |-> "none", status |-> "none", audio |-> 0, file |-> 0]

Init ==
    /\ isConnected = FALSE
    /\ canPushToTalk = TRUE
    /\ isRecording = FALSE
    /\ items = <<>>
    /\ realtimeEvents = <<>>
    /\ toggleValue = "none"
    /\ recStatus = "ended"
    /\ recOwner = "nobody"
    /\ playerConnected = FALSE
    /\ track = NoTrack
    /\ clientConnected = FALSE
    /\ turnDetection = "none"
    /\ convItems = <<>>
    /\ itemObj = [i \in ItemIds |-> NewItem]
    /\ pc = [t \in Tasks |-> "idle"]
    /\ tso = [t \in InterruptTasks |-> NotYet]
    /\ hItem = [t \in UpdateTasks |-> ""]
    /\ hSnap = [t \in UpdateTasks |-> <<>>]
    /\ cancelCalls = [t \in InterruptTasks |-> <<>>]
    /\ framesFwd = FALSE
    /\ seedSent = [t \in ConnectTasks |-> 0]
    /\ deleteLog = NoDelete
    /\ createCalls = [t \in CreateCallers |-> 0]
    /\ decodes = [i \in ItemIds |-> 0]
    /\ notified = [i \in ItemIds |-> 0]
    /\ fed = [i \in ItemIds |-> 0]
    /\ ops = 0
    /\ seen = 0
    /\ lastKey = NoKey
    /\ runLen = 0
    /\ runs = 0
    /\ memoryKv = {}
    /\ code = ""
    /\ company = ""
    /\ persona = "Friendly"
    /\ customQuestion = ""
    /\ feedbackListeners = 0
    /\ cfgAt = [t \in ConnectTasks |-> InitialConfig]
    /\ seedText = [t \in ConnectTasks |-> <<>>]
    /\ turnLog = NoTurn
    /\ modeLog = NoMode

\* ------------------------------------------------------- collaborators
\* WavRecorder (Audio Capture Device): begin / record / pause / end change
\* the status the device reports.
RecBegin(s) == IF s = "ended" THEN "paused" ELSE s
RecRecord(s) == IF s = "ended" THEN "ended" ELSE "recording"
RecPause(s) == IF s = "recording" THEN "paused" ELSE s
RecEnd(s) == "ended"

\* WavStreamPlayer.interrupt(): the active track and how far it played, or
\* no track; the track is gone afterwards.
PlayerInterrupt(tr) == tr

\* The playback engine is handed audio of item id (add16BitPCM, line 448):
\* the item's track becomes the active one.
PlayerReceivesAudio(id) ==
    /\ clientConnected
    /\ track = NoTrack
    /\ track' = [trackId |-> id, offset |-> 0]
    /\ UNCHANGED <<isConnected, canPushToTalk, isRecording, toggleValue,
                   recStatus, recOwner, playerConnected, clientConnected,
                   turnDetection, pc, tso, cancelCalls, framesFwd, seedSent, deleteLog, createCalls>>
    /\ UNCHANGED <<itemVars, logVars>>
    /\ UNCHANGED <<pageVars, turnVars>>
    /\ UNCHANGED ops

PlayerPlays ==
    /\ track # NoTrack
    /\ track.offset < MaxOffset
    /\ track' = [track EXCEPT !.offset = @ + 1]
    /\ UNCHANGED <<isConnected, canPushToTalk, isRecording, toggleValue,
                   recStatus, recOwner, playerConnected, clientConnected,
                   turnDetection, pc, tso, cancelCalls, framesFwd, seedSent, deleteLog, createCalls>>
    /\ UNCHANGED <<itemVars, logVars>>
    /\ UNCHANGED <<pageVars, turnVars>>
    /\ UNCHANGED ops

PlayerTrackEnds ==
    /\ track # NoTrack
    /\ track' = NoTrack
    /\ UNCHANGED <<isConnected, canPushToTalk, isRecording, toggleValue,
                   recStatus, recOwner, playerConnected, clientConnected,
                   turnDetection, pc, tso, cancelCalls, framesFwd, seedSent, deleteLog, createCalls>>
    /\ UNCHANGED <<itemVars, logVars>>
    /\ UNCHANGED <<pageVars, turnVars>>
    /\ UNCHANGED ops

\* The capture device delivers a frame to the callback given to record():
\* (data) => client.appendInputAudio(data.mono)  (lines 202, 248, 275).
CaptureFrame ==
    /\ recStatus = "recording"
    /\ framesFwd' = TRUE
    /\ UNCHANGED <<isConnected, canPushToTalk, isRecording, toggleValue,
                   recStatus, recOwner, playerConnected, track,
                   clientConnected, turnDetection, pc, tso, cancelCalls,
                   seedSent, deleteLog,
                   createCalls>>
    /\ UNCHANGED <<itemVars, logVars>>
    /\ UNCHANGED <<pageVars, turnVars>>
    /\ UNCHANGED ops

\* --------------------------------------------------- connectConversation
\* The Start/End button runs connectConversation when the rendered
\* isConnected is false (lines 567-575).  The second slot is used only while
\* the first invocation is still suspended.
ConnectSlot == IF pc["c1"] \in Finished THEN "c1" ELSE "c2"

ConnectConversation ==
    LET t == ConnectSlot IN
    /\ ~isConnected
    /\ CanInvoke
    /\ pc[t] \in Finished
    /\ isConnected' = TRUE
    /\ realtimeEvents' = <<>>
    /\ items' = convItems
    /\ memoryKv' = {}
    /\ code' = ""
    /\ cfgAt' = [cfgAt EXCEPT ![t] = [company |-> company,
                                      persona |-> persona,
                                      customQuestion |-> customQuestion]]
    /\ seedSent' = [seedSent EXCEPT ![t] = 0]
    /\ seedText' = [seedText EXCEPT ![t] = <<>>]
    /\ pc' = [pc EXCEPT ![t] = "await_begin"]
    /\ UNCHANGED <<canPushToTalk, isRecording, toggleValue, recStatus,
                   recOwner, playerConnected, track, clientConnected,
                   turnDetection, tso, cancelCalls, framesFwd,
                   deleteLog, createCalls>>
    /\ UNCHANGED <<convItems, itemObj, hItem, hSnap, decodes, notified, fed>>
    /\ UNCHANGED <<seen, lastKey, runLen, runs>>
    /\ UNCHANGED <<company, persona, customQuestion, feedbackListeners>>
    /\ UNCHANGED turnVars
    /\ ops' = ops + 1

\* await wavRecorder.begin() resolves or rejects (line 180).
ConnectAfterBegin(t) ==
    /\ pc[t] = "await_begin"
    /\ \E ok \in BOOLEAN :
        IF ok
        THEN /\ recStatus' = RecBegin(recStatus)
             /\ pc' = [pc EXCEPT ![t] = "await_player"]
        ELSE /\ pc' = [pc EXCEPT ![t] = "threw"]
             /\ UNCHANGED recStatus
    /\ UNCHANGED <<isConnected, canPushToTalk, isRecording, toggleValue,
                   recOwner, playerConnected, track, clientConnected,
                   turnDetection, tso, cancelCalls, framesFwd,
                   seedSent, deleteLog, createCalls>>
    /\ UNCHANGED <<itemVars, logVars>>
    /\ UNCHANGED <<pageVars, turnVars>>
    /\ UNCHANGED ops

\* await wavStreamPlayer.connect() resolves or rejects (line 183).
ConnectAfterPlayer(t) ==
    /\ pc[t] = "await_player"
    /\ \E ok \in BOOLEAN :
        IF ok
        THEN /\ playerConnected' = TRUE
             /\ pc' = [pc EXCEPT ![t] = "await_client"]
        ELSE /\ pc' = [pc EXCEPT ![t] = "threw"]
             /\ UNCHANGED playerConnected
    /\ UNCHANGED <<isConnected, canPushToTalk, isRecording, toggleValue,
                   recStatus, recOwner, track, clientConnected,
                   turnDetection, tso, cancelCalls, framesFwd,
                   seedSent, deleteLog, createCalls>>
    /\ UNCHANGED <<itemVars, logVars>>
    /\ UNCHANGED <<pageVars, turnVars>>
    /\ UNCHANGED ops

\* useCallback(..., []) keeps the connectConversation of the first render
\* (lines 156, 204): the company, persona and customQuestion it reads are
\* the initial useState values (lines 107, 110, 111).
CapturedCompany == ""
CapturedPersona == "Friendly"
CapturedQuestion == ""

\* String.prototype.trim on the values of the configuration panel.
Trim(s) == IF s = " " THEN "" ELSE s

\* The text of the seed message as the sequence of the values interpolated
\* into the template: persona, company when company.trim() is not empty
\* (lines 175-177), customQuestion.trim() (line 193).
SeedText(co, pe, q) ==
    <<pe>> \o (IF Trim(co) # "" THEN <<co>> ELSE <<>>) \o <<Trim(q)>>

\* await client.connect() resolves or rejects (line 186); then the seed
\* instruction is sent (187-199) and, in server_vad mode, record is called
\* (201-203).
ConnectAfterClient(t) ==
    /\ pc[t] = "await_client"
    /\ \E ok \in BOOLEAN :
        IF ok
        THEN /\ clientConnected' = TRUE
             /\ seedSent' = [seedSent EXCEPT ![t] = @ + 1]
             /\ seedText' = [seedText EXCEPT ![t] =
                     SeedText(CapturedCompany, CapturedPersona,
                              CapturedQuestion)]
             /\ pc' = [pc EXCEPT ![t] =
                         IF turnDetection = "server_vad"
                         THEN "await_record" ELSE "idle"]
        ELSE /\ pc' = [pc EXCEPT ![t] = "threw"]
             /\ UNCHANGED <<clientConnected, seedSent, seedText>>
    /\ UNCHANGED <<isConnected, canPushToTalk, isRecording, toggleValue,
                   recStatus, recOwner, playerConnected, track,
                   turnDetection, tso, cancelCalls, framesFwd,
                   deleteLog, createCalls>>
    /\ UNCHANGED <<itemVars, logVars>>
    /\ UNCHANGED <<memoryKv, code, company, persona, customQuestion,
                   feedbackListeners, cfgAt>>
    /\ UNCHANGED turnVars
    /\ UNCHANGED ops

\* await wavRecorder.record(...) resolves (line 202).
ConnectAfterRecord(t) ==
    /\ pc[t] = "await_record"
    /\ recStatus' = RecRecord(recStatus)
    /\ recOwner' = IF recStatus = "ended" THEN recOwner ELSE "connect"
    /\ framesFwd' = FALSE
    /\ pc' = [pc EXCEPT ![t] = "idle"]
    /\ UNCHANGED <<isConnected, canPushToTalk, isRecording, toggleValue,
                   playerConnected, track, clientConnected, turnDetection,
                   tso, cancelCalls, seedSent,
                   deleteLog, createCalls>>
    /\ UNCHANGED <<itemVars, logVars>>
    /\ UNCHANGED <<pageVars, turnVars>>
    /\ UNCHANGED ops

\* ------------------------------------------------ disconnectConversation
\* A variant with the setters of lines 211-212 in force: it clears the
\* event log and the items.
DisconnectConversation_ClearsPage ==
    /\ isConnected
    /\ CanInvoke
    /\ pc["dc"] \in Finished
    /\ isConnected' = FALSE
    /\ clientConnected' = FALSE
    /\ realtimeEvents' = <<>>
    /\ items' = <<>>
    /\ convItems' \in {convItems, <<>>}
    /\ pc' = [pc EXCEPT !["dc"] = "await_end"]
    /\ UNCHANGED <<canPushToTalk, isRecording, toggleValue, recStatus,
                   recOwner, playerConnected, track, turnDetection, tso,
                   cancelCalls, framesFwd, seedSent, deleteLog, createCalls>>
    /\ UNCHANGED <<itemObj, hItem, hSnap, decodes, notified, fed>>
    /\ UNCHANGED <<seen, lastKey, runLen, runs>>
    /\ UNCHANGED <<pageVars, turnVars>>
    /\ ops' = ops + 1

\* Bound to the Start/End button when the rendered isConnected is true.
\* Lines 210-217: the setters that would clear the page are commented out;
\* client.disconnect() closes the client, which keeps or drops the
\* conversation it holds.
DisconnectConversation ==
    /\ isConnected
    /\ CanInvoke
    /\ pc["dc"] \in Finished
    /\ isConnected' = FALSE
    /\ clientConnected' = FALSE
    /\ convItems' \in {convItems, <<>>}
    /\ pc' = [pc EXCEPT !["dc"] = "await_end"]
    /\ UNCHANGED <<canPushToTalk, isRecording, toggleValue, recStatus,
                   recOwner, playerConnected, track, turnDetection, tso,
                   cancelCalls, framesFwd, seedSent, deleteLog, createCalls>>
    /\ UNCHANGED <<items, itemObj, hItem, hSnap, decodes, notified, fed>>
    /\ UNCHANGED logVars
    /\ UNCHANGED <<pageVars, turnVars>>
    /\ ops' = ops + 1

\* await wavRecorder.end() resolves (line 220).
DisconnectAfterEnd ==
    /\ pc["dc"] = "await_end"
    /\ recStatus' = RecEnd(recStatus)
    /\ pc' = [pc EXCEPT !["dc"] = "await_interrupt"]
    /\ UNCHANGED <<isConnected, canPushToTalk, isRecording, toggleValue,
                   recOwner, playerConnected, track, clientConnected,
                   turnDetection, tso, cancelCalls, framesFwd,
                   seedSent, deleteLog, createCalls>>
    /\ UNCHANGED <<itemVars, logVars>>
    /\ UNCHANGED <<pageVars, turnVars>>
    /\ UNCHANGED ops

\* await wavStreamPlayer.interrupt() resolves (line 223).
DisconnectAfterInterrupt ==
    /\ pc["dc"] = "await_interrupt"
    /\ track' = NoTrack
    /\ pc' = [pc EXCEPT !["dc"] = "idle"]
    /\ UNCHANGED <<isConnected, canPushToTalk, isRecording, toggleValue,
                   recStatus, recOwner, playerConnected, clientConnected,
                   turnDetection, tso, cancelCalls, framesFwd,
                   seedSent, deleteLog, createCalls>>
    /\ UNCHANGED <<itemVars, logVars>>
    /\ UNCHANGED <<pageVars, turnVars>>
    /\ UNCHANGED ops

\* ------------------------------------------------ deleteConversationItem
\* useCallback(..., []) keeps the function of the first render, whose
\* isConnected is the initial useState(false) (lines 100, 226-232).
CapturedIsConnected == FALSE

DeleteConversationItem(id) ==
    /\ ops < MaxOps
    /\ deleteLog' = [id |-> id, wasConnected |-> isConnected,
                     forwarded |-> CapturedIsConnected]
    /\ UNCHANGED <<isConnected, canPushToTalk, isRecording, toggleValue,
                   recStatus, recOwner, playerConnected, track,
                   clientConnected, turnDetection, pc, tso, cancelCalls,
                   framesFwd, seedSent,
                   createCalls>>
    /\ UNCHANGED <<itemVars, logVars>>
    /\ UNCHANGED <<pageVars, turnVars>>
    /\ ops' = ops + 1

\* ------------------------------------------- interruption / cancellation
\* A variant that cancels whether or not a track was reported.
CancelWanted_Always(r) == TRUE

\* if (trackSampleOffset?.trackId)  (lines 244, 440)
CancelWanted(r) == r.trackId # ""

\* A variant that cancels the whole response instead of truncating it at the
\* offset played.
CancelArgs_NoOffset(r) == [trackId |-> r.trackId, offset |-> 0]

\* const { trackId, offset } = trackSampleOffset;
\* client.cancelResponse(trackId, offset)  (lines 245-246, 441-442)
CancelArgs(r) == [trackId |-> r.trackId, offset |-> r.offset]

\* What follows the interruption in each handler: startRecording goes on to
\* wavRecorder.record (line 248), the conversation.interrupted handler
\* returns (line 444).
AfterInterruption(t) == IF t = "sr" THEN "await_record" ELSE "idle"

\* await wavStreamPlayer.interrupt() resolves (lines 243, 439); when it
\* reports a track, client.cancelResponse is called, and returns or throws.
AfterInterrupt(t) ==
    /\ pc[t] = "await_interrupt"
    /\ tso' = [tso EXCEPT ![t] =
                 IF t = "ih" /\ ~CancelWanted(PlayerInterrupt(track))
                 THEN NotYet ELSE PlayerInterrupt(track)]
    /\ track' = NoTrack
    /\ IF CancelWanted(PlayerInterrupt(track))
       THEN /\ cancelCalls' = [cancelCalls EXCEPT ![t] =
                                 Append(@, CancelArgs(PlayerInterrupt(track)))]
            /\ \E ok \in BOOLEAN :
                pc' = [pc EXCEPT ![t] = IF ok THEN "await_cancel" ELSE "threw"]
       ELSE /\ pc' = [pc EXCEPT ![t] = AfterInterruption(t)]
            /\ UNCHANGED cancelCalls
    /\ UNCHANGED <<isConnected, canPushToTalk, isRecording, toggleValue,
                   recStatus, recOwner, playerConnected, clientConnected,
                   turnDetection, framesFwd, seedSent,
                   deleteLog, createCalls>>
    /\ UNCHANGED <<itemVars, logVars>>
    /\ UNCHANGED <<pageVars, turnVars>>
    /\ UNCHANGED ops

\* await client.cancelResponse(...) resolves (lines 246, 442).
AfterCancel(t) ==
    /\ pc[t] = "await_cancel"
    /\ pc' = [pc EXCEPT ![t] = AfterInterruption(t)]
    /\ tso' = IF t = "ih" THEN [tso EXCEPT ![t] = NotYet] ELSE tso
    /\ cancelCalls' = IF t = "ih" THEN [cancelCalls EXCEPT ![t] = <<>>]
                      ELSE cancelCalls
    /\ UNCHANGED <<isConnected, canPushToTalk, isRecording, toggleValue,
                   recStatus, recOwner, playerConnected, track,
                   clientConnected, turnDetection, framesFwd, seedSent, deleteLog, createCalls>>
    /\ UNCHANGED <<itemVars, logVars>>
    /\ UNCHANGED <<pageVars, turnVars>>
    /\ UNCHANGED ops

\* client.on('conversation.interrupted', ...) is dispatched (line 438).
OnConversationInterrupted ==
    /\ clientConnected
    /\ CanInvoke
    /\ pc["ih"] \in Finished
    /\ pc' = [pc EXCEPT !["ih"] = "await_interrupt"]
    /\ tso' = [tso EXCEPT !["ih"] = NotYet]
    /\ cancelCalls' = [cancelCalls EXCEPT !["ih"] = <<>>]
    /\ UNCHANGED <<isConnected, canPushToTalk, isRecording, toggleValue,
                   recStatus, recOwner, playerConnected, track,
                   clientConnected, turnDetection, framesFwd, seedSent, deleteLog, createCalls>>
    /\ UNCHANGED <<itemVars, logVars>>
    /\ UNCHANGED <<pageVars, turnVars>>
    /\ ops' = ops + 1

\* -------------------------------------------------------- startRecording
\* A variant that starts the capture before it interrupts the playback.
StartRecording_RecordFirst ==
    /\ isConnected /\ canPushToTalk
    /\ CanInvoke
    /\ pc["sr"] \in Finished
    /\ isRecording' = TRUE
    /\ tso' = [tso EXCEPT !["sr"] = NotYet]
    /\ cancelCalls' = [cancelCalls EXCEPT !["sr"] = <<>>]
    /\ recStatus' = RecRecord(recStatus)
    /\ recOwner' = IF recStatus = "ended" THEN recOwner ELSE "sr"
    /\ framesFwd' = FALSE
    /\ pc' = [pc EXCEPT !["sr"] = "await_interrupt"]
    /\ UNCHANGED <<isConnected, canPushToTalk, toggleValue, playerConnected,
                   track, clientConnected, turnDetection, seedSent,
                   deleteLog, createCalls>>
    /\ turnLog' = [open |-> recStatus # "ended", after |-> "nostart",
                    from |-> "none"]
    /\ UNCHANGED <<itemVars, logVars>>
    /\ UNCHANGED <<pageVars, modeLog>>
    /\ ops' = ops + 1

\* The Speak button is rendered when isConnected && canPushToTalk (557-565);
\* onMouseDown runs startRecording up to its first await (238-243).  A
\* callback still registered by an earlier startRecording is from then on
\* an earlier recording's.
StartRecording ==
    /\ isConnected /\ canPushToTalk
    /\ CanInvoke
    /\ pc["sr"] \in Finished
    /\ isRecording' = TRUE
    /\ tso' = [tso EXCEPT !["sr"] = NotYet]
    /\ cancelCalls' = [cancelCalls EXCEPT !["sr"] = <<>>]
    /\ recOwner' = IF recOwner = "sr" THEN "earlier" ELSE recOwner
    /\ pc' = [pc EXCEPT !["sr"] = "await_interrupt"]
    /\ UNCHANGED <<isConnected, canPushToTalk, toggleValue, recStatus,
                   playerConnected, track, clientConnected, turnDetection,
                   framesFwd, seedSent, deleteLog, createCalls>>
    /\ turnLog' = [open |-> recStatus # "ended", after |-> "nostart",
                    from |-> "none"]
    /\ UNCHANGED <<itemVars, logVars>>
    /\ UNCHANGED <<pageVars, modeLog>>
    /\ ops' = ops + 1

\* await wavRecorder.record(...) resolves (line 248).
StartAfterRecord ==
    /\ pc["sr"] = "await_record"
    /\ recStatus' = RecRecord(recStatus)
    /\ recOwner' = IF recStatus = "ended" THEN recOwner ELSE "sr"
    /\ framesFwd' = FALSE
    /\ pc' = [pc EXCEPT !["sr"] = "idle"]
    /\ UNCHANGED <<isConnected, canPushToTalk, isRecording, toggleValue,
                   playerConnected, track, clientConnected, turnDetection,
                   tso, cancelCalls, seedSent,
                   deleteLog, createCalls>>
    /\ UNCHANGED <<itemVars, logVars>>
    /\ UNCHANGED <<pageVars, turnVars>>
    /\ UNCHANGED ops

\* --------------------------------------------------------- stopRecording
\* What the startRecording before a stopRecording has done when
\* stopRecording is invoked: isRecording is true from line 239 on.
StartSeen ==
    IF ~isRecording THEN "nostart"
    ELSE IF pc["sr"] = "idle" THEN "returned"
    ELSE IF pc["sr"] = "threw" THEN "threw"
    ELSE "suspended"

\* onMouseUp of the Speak button (line 563) up to await wavRecorder.pause().
StopRecording ==
    /\ isConnected /\ canPushToTalk
    /\ CanInvoke
    /\ pc["st"] \in Finished
    /\ isRecording' = FALSE
    /\ createCalls' = [createCalls EXCEPT !["st"] = 0]
    /\ turnLog' = [turnLog EXCEPT !.after = StartSeen, !.from = "none"]
    /\ pc' = [pc EXCEPT !["st"] = "await_pause"]
    /\ UNCHANGED <<isConnected, canPushToTalk, toggleValue, recStatus,
                   recOwner, playerConnected, track, clientConnected,
                   turnDetection, tso, cancelCalls, framesFwd,
                   seedSent, deleteLog>>
    /\ UNCHANGED <<itemVars, logVars>>
    /\ UNCHANGED <<pageVars, modeLog>>
    /\ ops' = ops + 1

\* await wavRecorder.pause() resolves; client.createResponse() (258-259).
StopAfterPause ==
    /\ pc["st"] = "await_pause"
    /\ recStatus' = RecPause(recStatus)
    /\ createCalls' = [createCalls EXCEPT !["st"] = @ + 1]
    /\ turnLog' = [turnLog EXCEPT !.from = recStatus]
    /\ pc' = [pc EXCEPT !["st"] = "idle"]
    /\ UNCHANGED <<isConnected, canPushToTalk, isRecording, toggleValue,
                   recOwner, playerConnected, track, clientConnected,
                   turnDetection, tso, cancelCalls, framesFwd,
                   seedSent, deleteLog>>
    /\ UNCHANGED <<itemVars, logVars>>
    /\ UNCHANGED <<pageVars, modeLog>>
    /\ UNCHANGED ops

\* ----------------------------------------------------- changeTurnEndType
\* The Toggle flips between 'none' and 'server_vad' (lines 550-555) and
\* calls changeTurnEndType(value) with the new value.
Flip(v) == IF v = "none" THEN "server_vad" ELSE "none"

\* A variant without the pause of lines 268-270: the session is updated
\* while the recorder goes on recording.
ChangeTurnEndType_NoPause ==
    LET value == Flip(toggleValue) IN
    /\ pc["mo"] \in Finished
    /\ CanInvoke
    /\ toggleValue' = value
    /\ modeLog' = [wasRecording |-> recStatus = "recording", pauses |-> 0]
    /\ turnDetection' = value
    /\ IF value = "server_vad" /\ clientConnected
       THEN /\ pc' = [pc EXCEPT !["mo"] = "await_record"]
            /\ UNCHANGED canPushToTalk
       ELSE /\ pc' = [pc EXCEPT !["mo"] = "idle"]
            /\ canPushToTalk' = (value = "none")
    /\ UNCHANGED <<isConnected, isRecording, recStatus, recOwner,
                   playerConnected, track, clientConnected, tso, cancelCalls,
                   framesFwd, seedSent,
                   deleteLog, createCalls>>
    /\ UNCHANGED <<itemVars, logVars>>
    /\ UNCHANGED <<pageVars, turnLog>>
    /\ ops' = ops + 1

\* Lines 265-278 up to the first await that is reached.
ChangeTurnEndType ==
    LET value == Flip(toggleValue) IN
    /\ pc["mo"] \in Finished
    /\ CanInvoke
    /\ toggleValue' = value
    /\ modeLog' = [wasRecording |-> recStatus = "recording", pauses |-> 0]
    /\ IF value = "none" /\ recStatus = "recording"
       THEN /\ pc' = [pc EXCEPT !["mo"] = "await_pause"]
            /\ UNCHANGED <<turnDetection, canPushToTalk>>
       ELSE /\ turnDetection' = value
            /\ IF value = "server_vad" /\ clientConnected
               THEN /\ pc' = [pc EXCEPT !["mo"] = "await_record"]
                    /\ UNCHANGED canPushToTalk
               ELSE /\ pc' = [pc EXCEPT !["mo"] = "idle"]
                    /\ canPushToTalk' = (value = "none")
    /\ UNCHANGED <<isConnected, isRecording, recStatus, recOwner,
                   playerConnected, track, clientConnected, tso, cancelCalls,
                   framesFwd, seedSent,
                   deleteLog, createCalls>>
    /\ UNCHANGED <<itemVars, logVars>>
    /\ UNCHANGED <<pageVars, turnLog>>
    /\ ops' = ops + 1

\* await wavRecorder.pause() resolves (line 269); value is 'none', so the
\* session is updated and push-to-talk is enabled (271-277).
ChangeAfterPause ==
    /\ pc["mo"] = "await_pause"
    /\ recStatus' = RecPause(recStatus)
    /\ turnDetection' = "none"
    /\ canPushToTalk' = TRUE
    /\ modeLog' = [modeLog EXCEPT !.pauses = @ + 1]
    /\ pc' = [pc EXCEPT !["mo"] = "idle"]
    /\ UNCHANGED <<isConnected, isRecording, toggleValue, recOwner,
                   playerConnected, track, clientConnected, tso, cancelCalls,
                   framesFwd, seedSent,
                   deleteLog, createCalls>>
    /\ UNCHANGED <<itemVars, logVars>>
    /\ UNCHANGED <<pageVars, turnLog>>
    /\ UNCHANGED ops

\* await wavRecorder.record(...) resolves (line 275); value is
\* 'server_vad', so push-to-talk is disabled (277).
ChangeAfterRecord ==
    /\ pc["mo"] = "await_record"
    /\ recStatus' = RecRecord(recStatus)
    /\ recOwner' = IF recStatus = "ended" THEN recOwner ELSE "mo"
    /\ framesFwd' = FALSE
    /\ canPushToTalk' = FALSE
    /\ pc' = [pc EXCEPT !["mo"] = "idle"]
    /\ UNCHANGED <<isConnected, isRecording, toggleValue, playerConnected,
                   track, clientConnected, turnDetection, tso, cancelCalls,
                   seedSent, deleteLog,
                   createCalls>>
    /\ UNCHANGED <<itemVars, logVars>>
    /\ UNCHANGED <<pageVars, turnVars>>
    /\ UNCHANGED ops

\* ------------------------------------------------------------------ Spec
Next ==
    \/ ConnectConversation
    \/ \E t \in ConnectTasks : ConnectAfterBegin(t)
    \/ \E t \in ConnectTasks : ConnectAfterPlayer(t)
    \/ \E t \in ConnectTasks : ConnectAfterClient(t)
    \/ \E t \in ConnectTasks : ConnectAfterRecord(t)
    \/ DisconnectConversation
    \/ DisconnectAfterEnd
    \/ DisconnectAfterInterrupt
    \/ \E id \in ItemIds : DeleteConversationItem(id)
    \/ StartRecording
    \/ \E t \in InterruptTasks : AfterInterrupt(t)
    \/ \E t \in InterruptTasks : AfterCancel(t)
    \/ StartAfterRecord
    \/ StopRecording
    \/ StopAfterPause
    \/ ChangeTurnEndType
    \/ ChangeAfterPause
    \/ ChangeAfterRecord
    \/ OnConversationInterrupted
    \/ \E id \in ItemIds : PlayerReceivesAudio(id)
    \/ PlayerPlays
    \/ PlayerTrackEnds
    \/ CaptureFrame

Spec == Init /\ [][Next]_vars

\* ------------------------------------------------------------ properties

\* C1: the frames that the capture begun by startRecording forwards to
\* client.appendInputAudio come after that startRecording's interrupt has
\* answered and, when it reported a track, after cancelResponse was called
\* for it.
C1_InterruptBeforeFirstFrame ==
    (recOwner = "sr" /\ recStatus = "recording" /\ framesFwd) =>
        /\ tso["sr"] # NotYet
        /\ CancelWanted(tso["sr"]) => Len(cancelCalls["sr"]) = 1

C1_Witness ==
    /\ recOwner = "sr" /\ recStatus = "recording" /\ framesFwd
    /\ tso["sr"] \in Tracks
    /\ Len(cancelCalls["sr"]) = 1

\* C6: a deleteConversationItem call made while the session is connected
\* calls client.deleteItem(id).
C6_DeleteForwardedWhenConnected ==
    deleteLog.wasConnected => deleteLog.forwarded

\* C7: a connect that failed at one of its opens leaves the session not
\* connected and every sub-resource closed.
C7_FailedConnectUnwound ==
    \A t \in ConnectTasks :
        pc[t] = "threw" =>
            /\ ~isConnected
            /\ recStatus = "ended"
            /\ ~playerConnected
            /\ ~clientConnected

\* C8: connect is never re-entered: two invocations of connectConversation
\* are never suspended at the same time (each has called wavRecorder.begin).
C8_ConnectNotReentered ==
    ~(pc["c1"] \notin Finished /\ pc["c2"] \notin Finished)

\* C9: a failing cancelResponse is swallowed: neither startRecording nor the
\* conversation.interrupted handler ends with the exception.
C9_CancelFailureSwallowed ==
    \A t \in InterruptTasks : pc[t] # "threw"

\* C10: an interruption whose interrupt() reported track T at offset O has
\* made exactly one cancelResponse call, with T and O.
C10_OneCancelWithTrackAndOffset ==
    \A t \in InterruptTasks :
        tso[t] \in Tracks =>
            cancelCalls[t] =
                <<[trackId |-> tso[t].trackId, offset |-> tso[t].offset]>>

C10_Witness ==
    /\ tso["ih"] \in Tracks
    /\ tso["ih"].offset > 0
    /\ Len(cancelCalls["ih"]) = 1

\* C11: in manual mode a stopRecording that follows a finished
\* startRecording on an open capture device finds the device capturing
\* (Idle, then Capturing), pauses it and calls createResponse exactly once
\* (AwaitingResponse).
C11_StartThenStopCapturesThenRequests ==
    (/\ pc["st"] = "idle"
     /\ turnLog.open
     /\ turnLog.after \in {"returned", "threw"}
     /\ turnLog.from # "none") =>
        /\ turnLog.from = "recording"
        /\ createCalls["st"] = 1

\* C15: a switch to manual mode made while the recorder is recording
\* pauses the recorder once, when its pause() resolves, and calls no
\* createResponse.
C15_SwitchToManualPausesOnce ==
    (toggleValue = "none" /\ modeLog.wasRecording) =>
        /\ modeLog.pauses = (IF pc["mo"] = "idle" THEN 1 ELSE 0)
        /\ createCalls["mo"] = 0

C15_Witness ==
    /\ toggleValue = "none" /\ modeLog.wasRecording
    /\ pc["mo"] = "idle" /\ modeLog.pauses = 1
    /\ recStatus = "paused" /\ turnDetection = "none" /\ canPushToTalk

\* C17: an interruption whose interrupt() reported no track has made no
\* cancelResponse call.
C17_NoTrackNoCancel ==
    \A t \in InterruptTasks :
        tso[t] \notin Tracks => cancelCalls[t] = <<>>

C17_Witness ==
    /\ tso["sr"] = NoTrack
    /\ pc["sr"] = "idle" /\ recOwner = "sr" /\ recStatus = "recording"
    /\ cancelCalls["sr"] = <<>>

\* C19: from the interruption of track T by startRecording until
\* stopRecording, T is not the player's active track again.
C19_InterruptedTrackStaysSilent ==
    (isRecording /\ tso["sr"] \in Tracks) =>
        track.trackId # tso["sr"].trackId

\* C22: once the invocations of connectConversation and
\* disconnectConversation have finished, a session marked disconnected has a
\* disconnected client and a recorder that is not recording.
C22_DisconnectedMeansClosed ==
    (/\ \A t \in ConnectTasks \cup {"dc"} : pc[t] \in Finished
     /\ ~isConnected) =>
        /\ ~clientConnected
        /\ recStatus # "recording"

\* C23: after stopRecording has paused the recorder and called
\* createResponse, and until the next startRecording, the capture begun by
\* startRecording forwards no frame.
C23_NoFrameAfterStop ==
    turnLog.from # "none" =>
        ~(recOwner = "sr" /\ recStatus = "recording" /\ framesFwd)

\* C24: no handler's wavRecorder.record takes effect on a recorder that is
\* already recording, and startRecording is not invoked while the session's
\* turn detection is server_vad.
C24_NoRecordWhileRecording ==
    [][/\ \A t \in ConnectTasks \cup {"sr", "mo"} :
            (pc[t] = "await_record" /\ pc'[t] # "await_record") =>
                recStatus # "recording"
       /\ (pc["sr"] \in Finished /\ pc'["sr"] = "await_interrupt") =>
                turnDetection # "server_vad"]_vars

\* ------------------------------------------------ event log (SpecLog)
\* A log entry: the source and type of the event it was created for, and
\* count, where 0 stands for an absent (undefined) count (lines 32-37).
NewEntry(src, type) == [source |-> src, type |-> type, count |-> 0]

\* The updater given to setRealtimeEvents (lines 426-435).
RecordEvent(log, src, type) ==
    IF Len(log) > 0 /\ log[Len(log)].type = type
    THEN [log EXCEPT ![Len(log)].count = @ + 1]
    ELSE Append(log, NewEntry(src, type))

\* The count an entry shows, an absent count meaning "seen once".
RepeatCount(e) == IF e.count = 0 THEN 1 ELSE e.count

\* client.on('realtime.event', ...) is dispatched (lines 424-436).
OnRealtimeEvent(src, type) ==
    /\ seen < MaxLog
    /\ realtimeEvents' = RecordEvent(realtimeEvents, src, type)
    /\ seen' = seen + 1
    /\ lastKey' = [source |-> src, type |-> type]
    /\ runLen' = IF lastKey = [source |-> src, type |-> type]
                 THEN runLen + 1 ELSE 1
    /\ runs' = IF lastKey = [source |-> src, type |-> type]
               THEN runs ELSE runs + 1
    /\ UNCHANGED <<sessVars, itemVars>>
    /\ UNCHANGED <<pageVars, turnVars>>

NextLog == \E src \in Sources, type \in TypeNames : OnRealtimeEvent(src, type)

SpecLog == Init /\ [][NextLog]_vars

\* C4: an event is merged into the last entry only when that entry has the
\* same typeName and the same source, so the log holds one entry per
\* contiguous run of events with identical (source, typeName).
C4_OneEntryPerSourceAndTypeRun ==
    Len(realtimeEvents) = runs

\* C5: the last entry's repeatCount equals the length of the current run of
\* events with identical (source, typeName).
C5_RepeatCountIsRunLength ==
    Len(realtimeEvents) > 0 =>
        RepeatCount(realtimeEvents[Len(realtimeEvents)]) = runLen

\* ------------------------------------- conversation reconciler (SpecItems)
Roles == {"assistant", "user"}

\* A free slot for one more invocation of the conversation.updated handler.
FreeUpdateSlot == IF pc["u1"] \in Finished THEN "u1" ELSE "u2"

\* if (item.status === 'completed' && item.formatted.audio?.length)
\* (line 450)
DecodeWanted(o) == o.status = "completed" /\ o.audio > 0

\* A variant that hands the delta to the player twice.
PlayerFeed_Twice(f, id, delta) == [f EXCEPT ![id] = @ + delta + delta]

\* wavStreamPlayer.add16BitPCM(delta.audio, item.id) (lines 447-449): the
\* bytes handed to the player under each track id.
PlayerFeed(f, id, delta) == [f EXCEPT ![id] = @ + delta]

\* The conversation.updated handler up to its first await or its return
\* (lines 445-458), run on the conversation as the client has just changed
\* it: conv and objs are the client's item list and item objects, id the
\* notified item and delta the bytes of delta.audio (0: no audio delta).
OnConversationUpdated(conv, objs, id, delta) ==
    LET t == FreeUpdateSlot IN
    /\ pc[t] \in Finished
    /\ notified[id] < MaxNotify
    /\ notified' = [notified EXCEPT ![id] = @ + 1]
    /\ convItems' = conv
    /\ itemObj' = objs
    /\ fed' = PlayerFeed(fed, id, delta)
    /\ IF DecodeWanted(objs[id])
       THEN /\ decodes' = [decodes EXCEPT ![id] = @ + 1]
            /\ hItem' = [hItem EXCEPT ![t] = id]
            /\ hSnap' = [hSnap EXCEPT ![t] = conv]
            /\ pc' = [pc EXCEPT ![t] = "await_decode"]
            /\ UNCHANGED items
       ELSE /\ items' = conv
            /\ pc' = [pc EXCEPT ![t] = "idle"]
            /\ UNCHANGED <<decodes, hItem, hSnap>>
    /\ UNCHANGED <<isConnected, canPushToTalk, isRecording, toggleValue,
                   recStatus, recOwner, playerConnected, track,
                   clientConnected, turnDetection, tso, cancelCalls,
                   framesFwd, seedSent, deleteLog, createCalls, ops>>
    /\ UNCHANGED logVars
    /\ UNCHANGED <<pageVars, turnVars>>

\* await WavRecorder.decode(...) resolves or rejects (lines 451-458): the
\* decoded file is stored on the item and the list taken at line 446 is
\* given to setItems; a rejection ends the handler before both.
UpdatedAfterDecode(t) ==
    /\ pc[t] = "await_decode"
    /\ \E ok \in BOOLEAN :
        IF ok
        THEN /\ itemObj' = [itemObj EXCEPT ![hItem[t]].file =
                                        itemObj[hItem[t]].audio]
             /\ items' = hSnap[t]
             /\ pc' = [pc EXCEPT ![t] = "idle"]
        ELSE /\ pc' = [pc EXCEPT ![t] = "threw"]
             /\ UNCHANGED <<itemObj, items>>
    /\ hItem' = [hItem EXCEPT ![t] = ""]
    /\ hSnap' = [hSnap EXCEPT ![t] = <<>>]
    /\ UNCHANGED <<convItems, decodes, notified, fed>>
    /\ UNCHANGED <<isConnected, canPushToTalk, isRecording, toggleValue,
                   recStatus, recOwner, playerConnected, track,
                   clientConnected, turnDetection, tso, cancelCalls,
                   framesFwd, seedSent, deleteLog, createCalls, ops>>
    /\ UNCHANGED logVars
    /\ UNCHANGED <<pageVars, turnVars>>

InConversation(id) == \E i \in 1..Len(convItems) : convItems[i] = id

\* The server reports a new item: an assistant item starts in progress
\* without audio, a user item is complete and carries the spoken audio.
ItemCreated(id, role) ==
    /\ ~InConversation(id)
    /\ itemObj[id].status = "none"
    /\ OnConversationUpdated(
           Append(convItems, id),
           [itemObj EXCEPT ![id] =
               [role |-> role,
                status |-> IF role = "user" THEN "completed" ELSE "in_progress",
                audio |-> IF role = "user" THEN 1 ELSE 0,
                file |-> 0]],
           id, 0)

\* An audio delta of one byte arrives for an assistant item in progress.
ItemAudioDelta(id) ==
    /\ InConversation(id)
    /\ itemObj[id].status = "in_progress"
    /\ itemObj[id].audio < MaxAudio
    /\ OnConversationUpdated(
           convItems, [itemObj EXCEPT ![id].audio = @ + 1], id, 1)

\* The server marks an item in progress completed.
ItemCompleted(id) ==
    /\ InConversation(id)
    /\ itemObj[id].status = "in_progress"
    /\ OnConversationUpdated(
           convItems, [itemObj EXCEPT ![id].status = "completed"], id, 0)

\* Another notification for an item that does not change its audio or its
\* status (a transcript update, a truncation).
ItemNotifiedAgain(id) ==
    /\ InConversation(id)
    /\ OnConversationUpdated(convItems, itemObj, id, 0)

NextItems ==
    \/ \E id \in ItemIds, role \in Roles : ItemCreated(id, role)
    \/ \E id \in ItemIds : ItemAudioDelta(id)
    \/ \E id \in ItemIds : ItemCompleted(id)
    \/ \E id \in ItemIds : ItemNotifiedAgain(id)
    \/ \E t \in UpdateTasks : UpdatedAfterDecode(t)

SpecItems == Init /\ [][NextItems]_vars

\* The items state holds references to the client's item objects.
Shown(i) == itemObj[items[i]]

\* C2: whatever the number of completion notifications for an item, its
\* audio is decoded once.
C2_DecodedOncePerItem ==
    \A id \in ItemIds : decodes[id] <= 1

\* C3: the items state holds no assistant item that is completed, has
\* audio and has no decoded file.
C3_NoCompletedUndecodedItemShown ==
    \A i \in 1..Len(items) :
        ~(/\ Shown(i).role = "assistant"
          /\ Shown(i).status = "completed"
          /\ Shown(i).audio > 0
          /\ Shown(i).file = 0)

\* C18: the bytes handed to the player under an assistant item's id are the
\* bytes of the item's audio deltas, each once, and a decoded file of the
\* item has their length.
C18_DeltasFedOnceAndDecoded ==
    \A id \in ItemIds :
        itemObj[id].role = "assistant" =>
            /\ fed[id] = itemObj[id].audio
            /\ itemObj[id].file # 0 => itemObj[id].file = fed[id]

C18_Witness ==
    \E id \in ItemIds :
        /\ itemObj[id].role = "assistant"
        /\ fed[id] > 1
        /\ itemObj[id].file = fed[id]

\* ------------------------------------------- page and session (SpecPage)
\* The configuration panel is rendered while isConnected is false (line
\* 583); its inputs call the setters (lines 612, 625, 635).
SetCompany(v) ==
    /\ ~isConnected
    /\ ops < MaxOps
    /\ v # company
    /\ company' = v
    /\ UNCHANGED <<isConnected, canPushToTalk, isRecording, toggleValue,
                   recStatus, recOwner, playerConnected, track,
                   clientConnected, turnDetection, pc, tso, cancelCalls,
                   framesFwd, seedSent, deleteLog, createCalls>>
    /\ UNCHANGED <<itemVars, logVars, turnVars>>
    /\ UNCHANGED <<memoryKv, code, persona, customQuestion,
                   feedbackListeners, cfgAt, seedText>>
    /\ ops' = ops + 1

SetPersona(v) ==
    /\ ~isConnected
    /\ ops < MaxOps
    /\ v # persona
    /\ persona' = v
    /\ UNCHANGED <<isConnected, canPushToTalk, isRecording, toggleValue,
                   recStatus, recOwner, playerConnected, track,
                   clientConnected, turnDetection, pc, tso, cancelCalls,
                   framesFwd, seedSent, deleteLog, createCalls>>
    /\ UNCHANGED <<itemVars, logVars, turnVars>>
    /\ UNCHANGED <<memoryKv, code, company, customQuestion,
                   feedbackListeners, cfgAt, seedText>>
    /\ ops' = ops + 1

SetCustomQuestion(v) ==
    /\ ~isConnected
    /\ ops < MaxOps
    /\ v # customQuestion
    /\ customQuestion' = v
    /\ UNCHANGED <<isConnected, canPushToTalk, isRecording, toggleValue,
                   recStatus, recOwner, playerConnected, track,
                   clientConnected, turnDetection, pc, tso, cancelCalls,
                   framesFwd, seedSent, deleteLog, createCalls>>
    /\ UNCHANGED <<itemVars, logVars, turnVars>>
    /\ UNCHANGED <<memoryKv, code, company, persona,
                   feedbackListeners, cfgAt, seedText>>
    /\ ops' = ops + 1

\* onCodeChange (lines 472-475): the editor's content is mirrored in code.
OnCodeChange(newValue) ==
    /\ ops < MaxOps
    /\ newValue # code
    /\ code' = newValue
    /\ UNCHANGED <<isConnected, canPushToTalk, isRecording, toggleValue,
                   recStatus, recOwner, playerConnected, track,
                   clientConnected, turnDetection, pc, tso, cancelCalls,
                   framesFwd, seedSent, deleteLog, createCalls>>
    /\ UNCHANGED <<itemVars, logVars, turnVars>>
    /\ UNCHANGED <<memoryKv, company, persona, customQuestion,
                   feedbackListeners, cfgAt, seedText>>
    /\ ops' = ops + 1

\* newKv = { ...memoryKv }; newKv[key] = value  (lines 415-419), the map
\* being a set of <<key, value>> pairs.
MergeKv(kv, key, value) == {e \in kv : e[1] # key} \cup {<<key, value>>}

\* The set_memory tool is called for the agent (lines 414-421).
SetMemory(key, value) ==
    /\ clientConnected
    /\ memoryKv' = MergeKv(memoryKv, key, value)
    /\ memoryKv' # memoryKv
    /\ UNCHANGED <<sessVars, itemVars, logVars, turnVars>>
    /\ UNCHANGED <<code, company, persona, customQuestion,
                   feedbackListeners, cfgAt, seedText>>

\* requestFeedback (lines 495-523), bound to the Request Feedback button
\* that is rendered while isConnected is true (lines 583, 667-671): the
\* message is sent and, unless the send throws, one more
\* conversation.updated listener is registered (line 505).  The awaited
\* send is a synchronous call, so the handler is not suspended.
RequestFeedback ==
    /\ isConnected
    /\ ops < MaxOps
    /\ \E ok \in BOOLEAN :
        feedbackListeners' = IF ok THEN feedbackListeners + 1
                             ELSE feedbackListeners
    /\ UNCHANGED <<isConnected, canPushToTalk, isRecording, toggleValue,
                   recStatus, recOwner, playerConnected, track,
                   clientConnected, turnDetection, pc, tso, cancelCalls,
                   framesFwd, seedSent, deleteLog, createCalls>>
    /\ UNCHANGED <<itemVars, logVars, turnVars>>
    /\ UNCHANGED <<memoryKv, code, company, persona, customQuestion,
                   cfgAt, seedText>>
    /\ ops' = ops + 1

\* The session in manual mode together with the page around it: the
\* configuration panel, the editor, the memory block, the feedback button,
\* and the events and items a connected client reports.
NextPage ==
    \/ ConnectConversation
    \/ \E t \in ConnectTasks : ConnectAfterBegin(t)
    \/ \E t \in ConnectTasks : ConnectAfterPlayer(t)
    \/ \E t \in ConnectTasks : ConnectAfterClient(t)
    \/ DisconnectConversation
    \/ DisconnectAfterEnd
    \/ DisconnectAfterInterrupt
    \/ \E v \in Companies : SetCompany(v)
    \/ \E v \in Personas : SetPersona(v)
    \/ \E v \in Questions : SetCustomQuestion(v)
    \/ \E v \in Codes : OnCodeChange(v)
    \/ \E k \in MemKeys, v \in MemValues : SetMemory(k, v)
    \/ RequestFeedback
    \/ clientConnected /\ OnRealtimeEvent("server", "session.update")
    \/ \E id \in ItemIds : clientConnected /\ ItemCreated(id, "assistant")
    \/ \E id \in ItemIds : PlayerReceivesAudio(id)

SpecPage == Init /\ [][NextPage]_vars

C13_DecodeFailureContained ==
    \A t \in UpdateTasks : pc[t] # "threw"

\* The values of a configuration that the seed text has to name: the
\* persona, and the company and the question when they are not blank.
Configured(cfg) ==
    {cfg.persona} \cup {v \in {cfg.company, cfg.customQuestion} : Trim(v) # ""}

Contains(text, v) == \E i \in 1..Len(text) : text[i] = v

\* C14: the seed text an invocation of connectConversation sent names the
\* persona, the company and the custom question that were configured when
\* that invocation was made.
C14_SeedNamesConfiguration ==
    \A t \in ConnectTasks :
        seedText[t] # <<>> =>
            \A v \in Configured(cfgAt[t]) : Contains(seedText[t], v)

\* C16: the step that invokes connectConversation leaves the event log, the
\* items, the memory map and the editor buffer empty.
C16_ConnectResetsPage ==
    [][(~isConnected /\ isConnected') =>
            /\ realtimeEvents' = <<>>
            /\ items' = <<>>
            /\ memoryKv' = {}
            /\ code' = ""]_vars

\* C20: requestFeedback keeps a single conversation.updated listener for
\* the feedback, however often it is invoked.
C20_OneFeedbackListener ==
    feedbackListeners <= 1

\* C21: once every conversation.updated handler has returned, the items
\* state is the item list the client holds.
C21_ItemsFollowTheSnapshot ==
    (\A t \in UpdateTasks : pc[t] = "idle") => items = convItems

====
